---- MODULE Spec2Model ----
(***************************************************************************)
(* Model of the scan pipeline of geo-analyser:                             *)
(*   - ScanQueueManager (src/src/main/scanner/queue.ts)                    *)
(*   - runScan, the scan engine (src/unnamed/part_003, lines 200-319)      *)
(*   - evaluateScan / calculateScore (src/unnamed/part_003, lines 13-185)  *)
(* The program runs on a single-threaded event loop: every action below is *)
(* the code that runs between two awaits (or one whole synchronous call).  *)
(***************************************************************************)
EXTENDS Integers, Sequences, FiniteSets, TLC

\* ---------------------------------------------------------------- bounds
MaxJobs == 2        \* enqueueScan calls in one behaviour
MaxQueries == 1     \* active queries a project can have
MaxTimers == 1      \* pending timers above which cancelScan is not called again
MaxText == 2        \* characters in a raw provider answer

\* the value of a numeric field that is null / undefined
Null == -1

\* ScanResult.metricsJson before evaluation (null)
NoMetrics == [null |-> TRUE]

ProjectIds == {"p1"}

VARIABLES
  queue,       \* this.queue: job ids in array order
  currentJob,  \* this.currentJob: a job id, or 0 for null
  isPaused,    \* this.isPaused
  jobs,        \* every ScanJob object created so far, indexed by job id
  run,         \* per job: the state of the runScan call started for it
  timers,      \* number of pending setTimeout(() => processNext(), 100)
  scans,       \* persisted Scan rows, indexed by scan id
  results,     \* persisted ScanResult rows, per scan id
  events,      \* payload of the last 'queue-updated' event
  evalIn,      \* one evaluateResponse call: its arguments and the judge's reply
  evalOut,     \* what that call returned, and the score calculateScore gave it
  evalCall     \* an evaluateScan(scanId) call made by another caller than runScan

vars == <<queue, currentJob, isPaused, jobs, run, timers, scans, results, events,
          evalIn, evalOut, evalCall>>

JobIds == 1..Len(jobs)

\* ------------------------------------------------------------- evaluator
\* EvaluationMetrics; sentiment_score is kept in tenths (-10..10), and the
\* score in tenths of a point, so that the arithmetic stays integral.
Max(a, b) == IF a >= b THEN a ELSE b
Min(a, b) == IF a <= b THEN a ELSE b

\* lines 176-179: what the ranking position adds (tenths of a point);
\* `if (metrics.ranking_position)` is false for null, undefined and 0
rankingPoints(m) ==
  IF m.ranking_position # Null /\ m.ranking_position # 0
  THEN 10 * Max(0, 11 - m.ranking_position) ELSE 0

calculateScore(m) ==
  LET vis  == IF m.is_visible THEN 400 ELSE 0
      sent == (m.sentiment_score + 10) * 10
      cit  == IF m.citation_found THEN 200 ELSE 0
      rank == rankingPoints(m)
      rec  == m.recommendation_strength
  IN Min(1000, Max(0, vis + sent + cit + rank + rec))

\* Math.round(totalScore / evaluatedCount), totalScore in tenths
overallScoreOf(totalScore, evaluatedCount) ==
  IF evaluatedCount > 0
  THEN (2 * totalScore + 10 * evaluatedCount) \div (20 * evaluatedCount)
  ELSE 0

\* metrics evaluateResponse can return: a clamped judge answer that sees
\* the brand, and the fallback that does not
JudgeMetrics ==
  { [is_visible |-> TRUE, sentiment_score |-> 10, citation_found |-> TRUE,
     ranking_position |-> 1, recommendation_strength |-> 100],
    [is_visible |-> FALSE, sentiment_score |-> 0, citation_found |-> FALSE,
     ranking_position |-> Null, recommendation_strength |-> 0] }

\* ------------------------------------------- evaluator (evaluateResponse)
\* A text is a sequence of one-character strings.
lowerChar(c) == IF c = "A" THEN "a" ELSE IF c = "B" THEN "b" ELSE c

\* String.prototype.toLowerCase
toLowerCase(t) == [i \in 1..Len(t) |-> lowerChar(t[i])]

\* String.prototype.includes
includes(t, u) == \E i \in 0..(Len(t) - Len(u)) : SubSeq(t, i + 1, i + Len(u)) = u

\* Fallback without the two toLowerCase calls on the raw text's side
FallbackCaseSensitive(aiResponse, brandVariations, domain) ==
  LET isVisible     == \E i \in 1..Len(brandVariations) :
                         includes(aiResponse, toLowerCase(brandVariations[i]))
      citationFound == includes(aiResponse, toLowerCase(domain))
  IN [is_visible |-> isVisible, sentiment_score |-> 0,
      citation_found |-> citationFound, ranking_position |-> Null,
      recommendation_strength |-> IF isVisible THEN 50 ELSE 0]

\* the catch block, lines 141-154
Fallback(aiResponse, brandVariations, domain) ==
  LET lowerResponse == toLowerCase(aiResponse)
      isVisible     == \E i \in 1..Len(brandVariations) :
                         includes(lowerResponse, toLowerCase(brandVariations[i]))
      citationFound == includes(lowerResponse, toLowerCase(domain))
  IN [is_visible |-> isVisible, sentiment_score |-> 0,
      citation_found |-> citationFound, ranking_position |-> Null,
      recommendation_strength |-> IF isVisible THEN 50 ELSE 0]

\* The judge's text is a sequence over "{", "}", "x" (any other character)
\* and "j" (a well-formed member list, whose members are the reply's json).
\* response.text.match(/\{[\s\S]*\}/): from the first "{" to the last "}"
NoMatch == <<>>
Positions(t, c) == {i \in 1..Len(t) : t[i] = c}
First(S) == CHOOSE i \in S : \A k \in S : i <= k
Last(S) == CHOOSE i \in S : \A k \in S : i >= k
jsonMatch(t) ==
  IF Positions(t, "{") = {} \/ Positions(t, "}") = {} THEN NoMatch
  ELSE IF First(Positions(t, "{")) > Last(Positions(t, "}")) THEN NoMatch
  ELSE SubSeq(t, First(Positions(t, "{")), Last(Positions(t, "}")))

\* JSON.parse(jsonMatch[0]): the object, or a SyntaxError. A boolean member is
\* "true", "false" or "undefined" (absent); a numeric member is a number or
\* Null (absent or null).
SyntaxError == [SyntaxError |-> TRUE]
EmptyObject ==
  [is_visible |-> "undefined", sentiment_score |-> Null, citation_found |-> "undefined",
   ranking_position |-> Null, recommendation_strength |-> Null]
JSONparse(match, json) ==
  IF match = <<"{", "j", "}">> THEN json
  ELSE IF match = <<"{", "}">> THEN EmptyObject
  ELSE SyntaxError

Boolean(v) == v = "true"
OrZero(x) == IF x = Null \/ x = 0 THEN 0 ELSE x

\* Clamped with line 133 storing the judge's sentiment as it came
ClampedNoSentiment(metrics) ==
  [is_visible |-> Boolean(metrics.is_visible),
   sentiment_score |-> OrZero(metrics.sentiment_score),
   citation_found |-> Boolean(metrics.citation_found),
   ranking_position |-> metrics.ranking_position,
   recommendation_strength |-> Max(0, Min(100, OrZero(metrics.recommendation_strength)))]

\* lines 131-137; sentiment_score in tenths
Clamped(metrics) ==
  [is_visible |-> Boolean(metrics.is_visible),
   sentiment_score |-> Max(-10, Min(10, OrZero(metrics.sentiment_score))),
   citation_found |-> Boolean(metrics.citation_found),
   ranking_position |-> metrics.ranking_position,
   recommendation_strength |-> Max(0, Min(100, OrZero(metrics.recommendation_strength)))]

\* evaluateResponse(aiResponse, brandVariations, domain, apiKey), where reply
\* is what callOpenAI does: it throws, or returns text
evaluateResponse(aiResponse, brandVariations, domain, reply) ==
  IF reply.throws THEN Fallback(aiResponse, brandVariations, domain)
  ELSE IF jsonMatch(reply.text) = NoMatch THEN Fallback(aiResponse, brandVariations, domain)
  ELSE IF JSONparse(jsonMatch(reply.text), reply.json) = SyntaxError
       THEN Fallback(aiResponse, brandVariations, domain)
  ELSE Clamped(JSONparse(jsonMatch(reply.text), reply.json))

\* no evaluateResponse call in progress
NoCall ==
  [aiResponse |-> <<>>, brandVariations |-> <<>>, domain |-> <<>>,
   reply |-> [throws |-> TRUE, text |-> <<>>, json |-> EmptyObject]]
NotCalled == [pc |-> "idle", metrics |-> NoMetrics, score |-> Null]

\* no evaluateScan call by another caller than runScan
NoEvaluation ==
  [pc |-> "idle", scanId |-> Null, todo |-> <<>>, idx |-> 0,
   totalScore |-> 0, evaluatedCount |-> 0]

\* ------------------------------------------------------------ queue.ts
NewJob(p) ==
  [projectId |-> p, status |-> "queued",
   progress |-> [total |-> 0, completed |-> 0, current |-> "waiting"],
   scanId |-> Null, error |-> "", startedAt |-> FALSE, completedAt |-> FALSE]

IdleRun ==
  [pc |-> "idle", scanId |-> Null, total |-> 0, cell |-> 0, completed |-> 0,
   todo |-> <<>>, idx |-> 0, totalScore |-> 0, evaluatedCount |-> 0, err |-> ""]

\* getAllJobs(): [...this.queue, ...(this.currentJob ? [this.currentJob] : [])]
getAllJobs(q, cur) == IF cur # 0 THEN Append(q, cur) ELSE q

\* what a 'queue-updated' listener receives: the job list with each job's fields
Snapshot(q, cur, js) ==
  [i \in 1..Len(getAllJobs(q, cur)) |->
     [id |-> getAllJobs(q, cur)[i],
      status |-> js[getAllJobs(q, cur)[i]].status,
      progress |-> js[getAllJobs(q, cur)[i]].progress]]

\* findJob(jobId): the current job first, then the queue; 0 for null
InQueue(q, id) == \E i \in 1..Len(q) : q[i] = id
findJob(q, cur, id) ==
  IF cur = id /\ id # 0 THEN id
  ELSE IF InQueue(q, id) THEN id ELSE 0

\* FirstQueued searching the queue from its end
RECURSIVE LastQueued(_, _, _)
LastQueued(q, js, i) ==
  IF i > Len(q) THEN 0
  ELSE IF LastQueued(q, js, i + 1) # 0 THEN LastQueued(q, js, i + 1)
  ELSE IF js[q[i]].status = "queued" THEN q[i]
  ELSE 0

\* this.queue.find(j => j.status === 'queued'); 0 when there is none
RECURSIVE FirstQueued(_, _, _)
FirstQueued(q, js, i) ==
  IF i > Len(q) THEN 0
  ELSE IF js[q[i]].status = "queued" THEN q[i]
  ELSE FirstQueued(q, js, i + 1)

\* ToStart with line 48 testing the slot only
ToStartIgnoringPause(q, cur, paused, js) ==
  IF cur # 0 THEN 0 ELSE FirstQueued(q, js, 1)

\* the job processNext() starts from the given state, 0 when it returns early
ToStart(q, cur, paused, js) ==
  IF paused \/ cur # 0 THEN 0 ELSE FirstQueued(q, js, 1)

StartJob(js, s) ==
  IF s = 0 THEN js
  ELSE [js EXCEPT ![s].status = "running", ![s].startedAt = TRUE]

StartRun(rs, s) ==
  IF s = 0 THEN rs ELSE [rs EXCEPT ![s].pc = "createScan"]

\* processNext() up to the first await inside runScan, applied to the state
\* (q, cur, paused, js, rs) its caller leaves
processNext(q, cur, paused, js, rs) ==
  LET s == ToStart(q, cur, paused, js) IN
  /\ currentJob' = IF s = 0 THEN cur ELSE s
  /\ jobs' = StartJob(js, s)
  /\ run' = StartRun(rs, s)
  /\ events' = Snapshot(q, currentJob', jobs')

\* enqueueScan(projectId)
enqueueScan(p, E) ==
  /\ Len(jobs) < E.jobs
  /\ LET id == Len(jobs) + 1
         js == Append(jobs, NewJob(p))
         rs == Append(run, IdleRun)
         q  == Append(queue, id)
     IN /\ queue' = q
        /\ IF currentJob = 0
           THEN processNext(q, currentJob, isPaused, js, rs)
           ELSE /\ jobs' = js
                /\ run' = rs
                /\ currentJob' = currentJob
                /\ events' = Snapshot(q, currentJob, js)
  /\ UNCHANGED <<isPaused, timers, scans, results, evalIn, evalOut, evalCall>>

\* the setTimeout(() => this.processNext(), 100) callback
TimerFires ==
  /\ timers > 0
  /\ timers' = timers - 1
  /\ LET s == ToStart(queue, currentJob, isPaused, jobs) IN
     IF s = 0
     THEN UNCHANGED <<currentJob, jobs, run, events>>
     ELSE processNext(queue, currentJob, isPaused, jobs, run)
  /\ UNCHANGED <<queue, isPaused, scans, results, evalIn, evalOut, evalCall>>

\* pauseScan(jobId)
pauseScan(id) ==
  LET job == findJob(queue, currentJob, id) IN
  IF job = 0 \/ jobs[job].status # "running"
  THEN UNCHANGED <<queue, currentJob, isPaused, jobs, run, timers, scans, results, events, evalIn, evalOut, evalCall>>
  ELSE /\ jobs' = [jobs EXCEPT ![job].status = "paused"]
       /\ isPaused' = TRUE
       /\ events' = Snapshot(queue, currentJob, jobs')
       /\ UNCHANGED <<queue, currentJob, run, timers, scans, results, evalIn, evalOut, evalCall>>

\* resumeScan putting the resumed job back to 'queued', so that dispatch
\* calls runScan for it again
resumeScanRequeue(id) ==
  LET job == findJob(queue, currentJob, id) IN
  IF job = 0 \/ jobs[job].status # "paused"
  THEN UNCHANGED <<queue, currentJob, isPaused, jobs, run, timers, scans, results, events, evalIn, evalOut, evalCall>>
  ELSE /\ isPaused' = FALSE
       /\ processNext(queue, 0, FALSE, [jobs EXCEPT ![job].status = "queued"], run)
       /\ UNCHANGED <<queue, timers, scans, results, evalIn, evalOut, evalCall>>

\* resumeScan(jobId)
resumeScan(id) ==
  LET job == findJob(queue, currentJob, id) IN
  IF job = 0 \/ jobs[job].status # "paused"
  THEN UNCHANGED <<queue, currentJob, isPaused, jobs, run, timers, scans, results, events, evalIn, evalOut, evalCall>>
  ELSE /\ isPaused' = FALSE
       /\ LET js == [jobs EXCEPT ![job].status = "running"]
              s  == ToStart(queue, currentJob, FALSE, js)
          IN IF s = 0
             THEN /\ jobs' = js
                  /\ events' = Snapshot(queue, currentJob, js)
                  /\ UNCHANGED <<currentJob, run>>
             ELSE processNext(queue, currentJob, FALSE, js, run)
       /\ UNCHANGED <<queue, timers, scans, results, evalIn, evalOut, evalCall>>

\* lines 124-127: the slot is freed only when the job's status is 'running'
SlotAfterCancel(cur, status) == IF status = "running" THEN 0 ELSE cur

\* cancelScan(jobId)
cancelScan(id) ==
  LET job == findJob(queue, currentJob, id) IN
  IF job = 0
  THEN UNCHANGED <<queue, currentJob, isPaused, jobs, run, timers, scans, results, events, evalIn, evalOut, evalCall>>
  ELSE /\ timers < MaxTimers
       /\ currentJob' = SlotAfterCancel(currentJob, jobs[job].status)
       /\ jobs' = [jobs EXCEPT ![job].status = "cancelled", ![job].completedAt = TRUE]
       /\ queue' = SelectSeq(queue, LAMBDA x : x # id)
       /\ events' = Snapshot(queue', currentJob', jobs')
       /\ timers' = timers + 1
       /\ UNCHANGED <<isPaused, run, scans, results, evalIn, evalOut, evalCall>>

\* ------------------------------------------------- engine (runScan)
\* An environment E names what the collaborators of the core can answer:
\*   E.jobs       how many enqueueScan calls a behaviour makes
\*   E.queries    the numbers of active queries a project may have
\*   E.providers  the numbers of active provider settings
\*   E.keys       whether a provider's credential is present
\*   E.calls      whether a provider call returns (TRUE) or throws (FALSE)
\*   E.db         whether a persistence write is stored (TRUE) or throws (FALSE)
\*   E.judgeKeys  whether the judge credential is present
\*   E.metrics    the metrics evaluateResponse may return

\* String(error) of an Error object (queue.ts line 77)
String(e) == "Error: " \o e

NoActiveQueries == "No active queries found for this project"
NoActiveProviders == "No active LLM providers configured"
NoJudgeCredential == "OpenAI API key not configured for evaluation"
DbError == "database write failed"

\* onProgress without the status test of line 66
onProgressAlways(js, j, p) == [js EXCEPT ![j].progress = p]

\* the progress callback processNext hands to runScan (queue.ts lines 65-70)
onProgress(js, j, p) ==
  IF js[j].status = "running" THEN [js EXCEPT ![j].progress = p] ELSE js

EmitIfRunning(js, j, q, cur, ev) ==
  IF js[j].status = "running" THEN Snapshot(q, cur, onProgress(js, j, ev)) ELSE events

\* await db.createScan(...) returns (part_003 lines 207-214); a throw here is
\* outside runScan's try and lands in processNext's catch
NewScan(p) == [projectId |-> p, status |-> "running", overallScore |-> Null, completedAt |-> FALSE]

\* CompleteJob with line 72 left out: the scan id is not stored
CompleteJobNoScanId(job, scanId) ==
  [job EXCEPT !.status = "completed", !.completedAt = TRUE]

\* the job fields processNext writes when runScan returns scanId (lines 72-74)
CompleteJob(job, scanId) ==
  [job EXCEPT !.scanId = scanId, !.status = "completed", !.completedAt = TRUE]

\* the job fields processNext writes when runScan throws (lines 76-78)
FailJob(job, e) ==
  [job EXCEPT !.status = "failed", !.error = String(e), !.completedAt = TRUE]

\* the slot after processNext's line 82
SlotAfterRun(cur) == 0

\* queue.ts lines 72-85 after runScan settled for job j with job record jr
Settle(j, jr) ==
  /\ jobs' = [jobs EXCEPT ![j] = jr]
  /\ events' = Snapshot(queue, currentJob, jobs')
  /\ currentJob' = SlotAfterRun(currentJob)
  /\ timers' = timers + 1
  /\ run' = [run EXCEPT ![j] = [IdleRun EXCEPT !.pc = "done"]]

CreateScanReturns(j, E) ==
  /\ run[j].pc = "createScan"
  /\ \E ok \in E.db :
       IF ok
       THEN /\ scans' = Append(scans, NewScan(jobs[j].projectId))
            /\ results' = Append(results, <<>>)
            /\ run' = [run EXCEPT ![j].pc = "loadConfig", ![j].scanId = Len(scans) + 1]
            /\ UNCHANGED <<currentJob, jobs, timers, events>>
       ELSE /\ Settle(j, FailJob(jobs[j], DbError))
            /\ UNCHANGED <<scans, results>>
  /\ UNCHANGED <<queue, isPaused, evalIn, evalOut, evalCall>>

\* lines 218-241: the two configuration reads, then the first cell's progress
LoadConfig(j, E) ==
  /\ run[j].pc = "loadConfig"
  /\ \E nq \in E.queries :
       IF nq = 0
       THEN /\ run' = [run EXCEPT ![j].pc = "markFailed", ![j].err = NoActiveQueries]
            /\ UNCHANGED <<jobs, events>>
       ELSE \E np \in E.providers :
       IF np = 0
       THEN /\ run' = [run EXCEPT ![j].pc = "markFailed", ![j].err = NoActiveProviders]
            /\ UNCHANGED <<jobs, events>>
       ELSE LET p == [total |-> nq * np, completed |-> 0, current |-> "cell"] IN
            /\ run' = [run EXCEPT ![j].pc = "getKey", ![j].total = nq * np,
                                  ![j].completed = 0, ![j].cell = 1]
            /\ jobs' = onProgress(jobs, j, p)
            /\ events' = EmitIfRunning(jobs, j, queue, currentJob, p)
  /\ UNCHANGED <<queue, currentJob, isPaused, timers, scans, results, evalIn, evalOut, evalCall>>

\* the end of one loop iteration with `completed` = c: either the next cell's
\* progress event (lines 237-241) or, after the last cell, lines 290-296
NextCell(j, c) ==
  IF run[j].cell < run[j].total
  THEN LET p == [total |-> run[j].total, completed |-> c, current |-> "cell"] IN
       /\ run' = [run EXCEPT ![j].pc = "getKey", ![j].cell = @ + 1, ![j].completed = c]
       /\ jobs' = onProgress(jobs, j, p)
       /\ events' = EmitIfRunning(jobs, j, queue, currentJob, p)
  ELSE LET p == [total |-> run[j].total, completed |-> run[j].total, current |-> "evaluating"] IN
       /\ run' = [run EXCEPT ![j].pc = "evalLoad", ![j].completed = c]
       /\ jobs' = onProgress(jobs, j, p)
       /\ events' = EmitIfRunning(jobs, j, queue, currentJob, p)

\* lines 245-270: the credential lookup returns; the provider call is issued
GetKeyReturns(j, E) ==
  /\ run[j].pc = "getKey"
  /\ \E hasKey \in E.keys :
       IF hasKey
       THEN /\ run' = [run EXCEPT ![j].pc = "providerCall"]
            /\ UNCHANGED <<jobs, events>>
       ELSE NextCell(j, run[j].completed)
  /\ UNCHANGED <<queue, currentJob, isPaused, timers, scans, results, evalIn, evalOut, evalCall>>

\* ProviderReturns without the inner try/catch of lines 243-285: a failed
\* provider call reaches the outer catch
ProviderReturnsAborting(j, E) ==
  /\ run[j].pc = "providerCall"
  /\ \E ok \in E.calls :
       IF ok
       THEN /\ run' = [run EXCEPT ![j].pc = "saveResult"]
            /\ UNCHANGED <<jobs, events>>
       ELSE /\ run' = [run EXCEPT ![j].pc = "markFailed", ![j].err = "provider call failed"]
            /\ UNCHANGED <<jobs, events>>
  /\ UNCHANGED <<queue, currentJob, isPaused, timers, scans, results, evalIn, evalOut, evalCall>>

\* lines 256-279: the provider call returns or throws
ProviderReturns(j, E) ==
  /\ run[j].pc = "providerCall"
  /\ \E ok \in E.calls :
       IF ok
       THEN /\ run' = [run EXCEPT ![j].pc = "saveResult"]
            /\ UNCHANGED <<jobs, events>>
       ELSE NextCell(j, run[j].completed)
  /\ UNCHANGED <<queue, currentJob, isPaused, timers, scans, results, evalIn, evalOut, evalCall>>

\* lines 273-285: db.createScanResult returns or throws
NewResult(c) == [cell |-> c, metrics |-> NoMetrics]

SaveResultReturns(j, E) ==
  /\ run[j].pc = "saveResult"
  /\ \E ok \in E.db :
       IF ok
       THEN /\ results' = [results EXCEPT ![run[j].scanId] = Append(@, NewResult(run[j].cell))]
            /\ NextCell(j, run[j].completed + 1)
       ELSE /\ UNCHANGED results
            /\ NextCell(j, run[j].completed)
  /\ UNCHANGED <<queue, currentJob, isPaused, timers, scans, evalIn, evalOut, evalCall>>

\* ------------------------------------------- evaluator (evaluateScan)
\* results.filter((r) => !r.metricsJson): the row indices still unscored
RECURSIVE Unevaluated(_, _)
Unevaluated(rows, i) ==
  IF i > Len(rows) THEN <<>>
  ELSE IF rows[i].metrics = NoMetrics THEN <<i>> \o Unevaluated(rows, i + 1)
  ELSE Unevaluated(rows, i + 1)

\* part_003 lines 17-47: the reads of evaluateScan and the judge credential
EvalLoad(j, E) ==
  /\ run[j].pc = "evalLoad"
  /\ \E hasKey \in E.judgeKeys :
       IF hasKey
       THEN LET todo == Unevaluated(results[run[j].scanId], 1) IN
            run' = [run EXCEPT ![j].todo = todo, ![j].idx = 1,
                               ![j].totalScore = 0, ![j].evaluatedCount = 0,
                               ![j].pc = IF todo = <<>> THEN "saveScore" ELSE "judge"]
       ELSE run' = [run EXCEPT ![j].pc = "markFailed", ![j].err = NoJudgeCredential]
  /\ UNCHANGED <<queue, currentJob, isPaused, jobs, timers, scans, results, events, evalIn, evalOut, evalCall>>

\* lines 57-59: the accumulators after one result is scored
AddScore(r, m) ==
  [r EXCEPT !.totalScore = @ + calculateScore(m), !.evaluatedCount = @ + 1]

\* lines 48-72: evaluateResponse returns metrics m for the current result and
\* db.updateScanResult stores them or throws (caught, line 69)
EvalResult(j, E) ==
  /\ run[j].pc = "judge"
  /\ \E m \in E.metrics, ok \in E.db :
       LET r    == AddScore(run[j], m)
           last == run[j].idx >= Len(run[j].todo)
       IN /\ run' = [run EXCEPT ![j] = [r EXCEPT !.idx = @ + 1,
                                                 !.pc = IF last THEN "saveScore" ELSE "judge"]]
          /\ results' = IF ok
                        THEN [results EXCEPT ![run[j].scanId][run[j].todo[run[j].idx]].metrics = m]
                        ELSE results
  /\ UNCHANGED <<queue, currentJob, isPaused, jobs, timers, scans, events, evalIn, evalOut, evalCall>>

\* SaveScoreReturns with lines 76-78 left out: no overallScore is written
SaveScoreReturnsNoWrite(j, E) ==
  /\ run[j].pc = "saveScore"
  /\ run' = [run EXCEPT ![j].pc = "markCompleted"]
  /\ UNCHANGED <<queue, currentJob, isPaused, jobs, timers, scans, results, events, evalIn, evalOut, evalCall>>

\* lines 75-78: db.updateScan(scanId, {overallScore}) returns or throws
SaveScoreReturns(j, E) ==
  /\ run[j].pc = "saveScore"
  /\ \E ok \in E.db :
       IF ok
       THEN /\ scans' = [scans EXCEPT ![run[j].scanId].overallScore =
                            overallScoreOf(run[j].totalScore, run[j].evaluatedCount)]
            /\ run' = [run EXCEPT ![j].pc = "markCompleted"]
       ELSE /\ run' = [run EXCEPT ![j].pc = "markFailed", ![j].err = DbError]
            /\ UNCHANGED scans
  /\ UNCHANGED <<queue, currentJob, isPaused, jobs, timers, results, events, evalIn, evalOut, evalCall>>

\* MarkCompletedReturns with lines 299-302 left out: the status is not written
MarkCompletedReturnsNoWrite(j, E) ==
  /\ run[j].pc = "markCompleted"
  /\ LET p == [total |-> run[j].total, completed |-> run[j].total, current |-> "done"] IN
     /\ UNCHANGED scans
     /\ Settle(j, CompleteJob(onProgress(jobs, j, p)[j], run[j].scanId))
  /\ UNCHANGED <<queue, isPaused, results, evalIn, evalOut, evalCall>>

\* part_003 lines 299-310, then queue.ts lines 72-85
MarkCompletedReturns(j, E) ==
  /\ run[j].pc = "markCompleted"
  /\ \E ok \in E.db :
       IF ok
       THEN LET p == [total |-> run[j].total, completed |-> run[j].total, current |-> "done"] IN
            /\ scans' = [scans EXCEPT ![run[j].scanId].status = "completed",
                                      ![run[j].scanId].completedAt = TRUE]
            /\ Settle(j, CompleteJob(onProgress(jobs, j, p)[j], run[j].scanId))
       ELSE /\ run' = [run EXCEPT ![j].pc = "markFailed", ![j].err = DbError]
            /\ UNCHANGED <<scans, currentJob, jobs, timers, events>>
  /\ UNCHANGED <<queue, isPaused, results, evalIn, evalOut, evalCall>>

\* MarkFailedReturns with lines 313-315 left out: the Scan row is not marked
MarkFailedReturnsNoWrite(j, E) ==
  /\ run[j].pc = "markFailed"
  /\ UNCHANGED scans
  /\ Settle(j, FailJob(jobs[j], run[j].err))
  /\ UNCHANGED <<queue, isPaused, results, evalIn, evalOut, evalCall>>

\* part_003 lines 311-318, then queue.ts lines 75-85
MarkFailedReturns(j, E) ==
  /\ run[j].pc = "markFailed"
  /\ \E ok \in E.db :
       IF ok
       THEN /\ scans' = [scans EXCEPT ![run[j].scanId].status = "failed"]
            /\ Settle(j, FailJob(jobs[j], run[j].err))
       ELSE /\ UNCHANGED scans
            /\ Settle(j, FailJob(jobs[j], DbError))
  /\ UNCHANGED <<queue, isPaused, results, evalIn, evalOut, evalCall>>

\* ------------------------------------------------------- specification
Init ==
  /\ queue = <<>>
  /\ currentJob = 0
  /\ isPaused = FALSE
  /\ jobs = <<>>
  /\ run = <<>>
  /\ timers = 0
  /\ scans = <<>>
  /\ results = <<>>
  /\ events = <<>>
  /\ evalIn = NoCall
  /\ evalOut = NotCalled
  /\ evalCall = NoEvaluation

EngineStep(j, E) ==
  \/ CreateScanReturns(j, E)
  \/ LoadConfig(j, E)
  \/ GetKeyReturns(j, E)
  \/ ProviderReturns(j, E)
  \/ SaveResultReturns(j, E)
  \/ EvalLoad(j, E)
  \/ EvalResult(j, E)
  \/ SaveScoreReturns(j, E)
  \/ MarkCompletedReturns(j, E)
  \/ MarkFailedReturns(j, E)

\* engine steps of job id j, for every id (no step for a job not yet created)
RunStep(j, E) == j \in JobIds /\ EngineStep(j, E)

\* the next-state relation under environment E
NextIn(E) ==
  \/ \E p \in ProjectIds : enqueueScan(p, E)
  \/ \E id \in 1..E.jobs : pauseScan(id)
  \/ \E id \in 1..E.jobs : resumeScan(id)
  \/ \E id \in 1..E.jobs : cancelScan(id)
  \/ TimerFires
  \/ \E j \in JobIds : CreateScanReturns(j, E)
  \/ \E j \in JobIds : LoadConfig(j, E)
  \/ \E j \in JobIds : GetKeyReturns(j, E)
  \/ \E j \in JobIds : ProviderReturns(j, E)
  \/ \E j \in JobIds : SaveResultReturns(j, E)
  \/ \E j \in JobIds : EvalLoad(j, E)
  \/ \E j \in JobIds : EvalResult(j, E)
  \/ \E j \in JobIds : SaveScoreReturns(j, E)
  \/ \E j \in JobIds : MarkCompletedReturns(j, E)
  \/ \E j \in JobIds : MarkFailedReturns(j, E)

\* Two jobs; every collaborator may answer or fail.
QueueEnv ==
  [jobs |-> MaxJobs, queries |-> 0..MaxQueries, providers |-> {0, 1},
   keys |-> {TRUE, FALSE}, calls |-> {TRUE, FALSE}, db |-> {TRUE, FALSE},
   judgeKeys |-> {TRUE, FALSE}, metrics |-> JudgeMetrics]

Next == NextIn(QueueEnv)

Spec == Init /\ [][Next]_vars

\* One job more, with collaborators that answer: a project has a query or
\* none (the run then throws), credentials are present, writes are stored.
ThreeEnv ==
  [jobs |-> MaxJobs + 1, queries |-> 0..MaxQueries, providers |-> {1},
   keys |-> {TRUE}, calls |-> {TRUE}, db |-> {TRUE}, judgeKeys |-> {TRUE},
   metrics |-> {m \in JudgeMetrics : m.is_visible}]

NextThree == NextIn(ThreeEnv)

SpecThree == Init /\ [][NextThree]_vars

\* Two jobs with the collaborators of ThreeEnv, under the scheduling the event
\* loop gives: a pending timer fires, a started run takes its next step, and
\* (the premise of the liveness claim) a paused job is resumed or cancelled.
FairEnv == [ThreeEnv EXCEPT !.jobs = MaxJobs]

ResumeOrCancelPaused(id) ==
  /\ id \in JobIds
  /\ jobs[id].status = "paused"
  /\ (resumeScan(id) \/ cancelScan(id))

NextFair == NextIn(FairEnv)

FairSpec ==
  /\ Init
  /\ [][NextFair]_vars
  /\ WF_vars(TimerFires)
  /\ \A j \in 1..MaxJobs : WF_vars(RunStep(j, FairEnv))
  /\ \A id \in 1..MaxJobs : WF_vars(ResumeOrCancelPaused(id))

\* One job, run against a persistence layer that stores every write: a
\* project has up to MaxQueries active queries and up to two active providers,
\* a provider's credential may be absent, a provider call may fail, and the
\* judge credential may be absent.
RunEnv ==
  [jobs |-> 1, queries |-> 0..MaxQueries, providers |-> {0, 1, 2},
   keys |-> {TRUE, FALSE}, calls |-> {TRUE, FALSE}, db |-> {TRUE},
   judgeKeys |-> {TRUE, FALSE}, metrics |-> JudgeMetrics]

NextRun == NextIn(RunEnv)

RunSpec == Init /\ [][NextRun]_vars

\* ------------------------------------- evaluateResponse / calculateScore
\* The arguments one evaluateResponse call may get.
RawChars == {"a", "A", "b"}
Texts == UNION {[1..n -> RawChars] : n \in 0..MaxText}
BrandLists == { <<>>, << <<"a">> >>, << <<"b", "B">>, <<"A", "b">> >> }
Domains == { <<"b">>, <<"B", "a">> }

\* what the judge may put in its JSON object
JudgeObjects ==
  [is_visible : {"true", "false", "undefined"},
   sentiment_score : {Null, -20, 4, 17},
   citation_found : {"true", "false"},
   ranking_position : {Null, -5, 0, 1, 10, 12},
   recommendation_strength : {Null, -10, 55, 150}]

AnObject ==
  [is_visible |-> "true", sentiment_score |-> 17, citation_found |-> "true",
   ranking_position |-> 1, recommendation_strength |-> 55]

\* texts the judge may return around (or instead of) its JSON object
ReplyTexts ==
  { <<>>, <<"x">>, <<"{", "j", "}">>, <<"x", "{", "j", "}", "x">>, <<"{", "}">>,
    <<"{", "j">>, <<"}", "{">>, <<"{", "j", "}", "}">>, <<"{", "x", "}">> }

Replies ==
  {[throws |-> TRUE, text |-> <<>>, json |-> EmptyObject]}
    \cup {[throws |-> FALSE, text |-> t, json |-> AnObject] : t \in ReplyTexts}
    \cup {[throws |-> FALSE, text |-> <<"{", "j", "}">>, json |-> o] : o \in JudgeObjects}

queueVars == <<queue, currentJob, isPaused, jobs, run, timers, scans, results, events>>

InitEval ==
  /\ queue = <<>>
  /\ currentJob = 0
  /\ isPaused = FALSE
  /\ jobs = <<>>
  /\ run = <<>>
  /\ timers = 0
  /\ scans = <<>>
  /\ results = <<>>
  /\ events = <<>>
  /\ evalIn \in [aiResponse : Texts, brandVariations : BrandLists,
                 domain : Domains, reply : Replies]
  /\ evalOut = [NotCalled EXCEPT !.pc = "called"]
  /\ evalCall = NoEvaluation

\* part_003 line 49: evaluateResponse returns
EvaluateResponseReturns ==
  /\ evalOut.pc = "called"
  /\ evalOut' = [evalOut EXCEPT !.pc = "returned",
                   !.metrics = evaluateResponse(evalIn.aiResponse, evalIn.brandVariations,
                                                evalIn.domain, evalIn.reply)]
  /\ UNCHANGED <<queueVars, evalIn, evalCall>>

\* part_003 line 57: calculateScore(metrics)
CalculateScoreReturns ==
  /\ evalOut.pc = "returned"
  /\ evalOut' = [evalOut EXCEPT !.pc = "scored", !.score = calculateScore(evalOut.metrics)]
  /\ UNCHANGED <<queueVars, evalIn, evalCall>>

NextEval == EvaluateResponseReturns \/ CalculateScoreReturns

EvalSpec == InitEval /\ [][NextEval]_vars

\* ------------------------------------ evaluateScan called once more
\* evaluateScan is exported: besides runScan's call (EvalLoad, EvalResult,
\* SaveScoreReturns above) another caller may invoke it. Here one such call
\* is made, on a Scan whose run has ended.
evaluateScan(s) ==
  /\ evalCall.pc = "idle"
  /\ s \in 1..Len(scans)
  /\ scans[s].status # "running"
  /\ evalCall' = [NoEvaluation EXCEPT !.pc = "evalLoad", !.scanId = s]
  /\ UNCHANGED <<queueVars, evalIn, evalOut>>

\* part_003 lines 17-47 of that call; a missing judge credential throws to
\* the caller
EvaluateScanLoads(E) ==
  /\ evalCall.pc = "evalLoad"
  /\ \E hasKey \in E.judgeKeys :
       IF hasKey
       THEN LET todo == Unevaluated(results[evalCall.scanId], 1) IN
            evalCall' = [evalCall EXCEPT !.todo = todo, !.idx = 1,
                                         !.pc = IF todo = <<>> THEN "saveScore" ELSE "judge"]
       ELSE evalCall' = [evalCall EXCEPT !.pc = "done"]
  /\ UNCHANGED <<queueVars, evalIn, evalOut>>

\* lines 48-72 of that call
EvaluateScanJudges(E) ==
  /\ evalCall.pc = "judge"
  /\ \E m \in E.metrics, ok \in E.db :
       LET r    == AddScore(evalCall, m)
           last == evalCall.idx >= Len(evalCall.todo)
       IN /\ evalCall' = [r EXCEPT !.idx = @ + 1,
                                    !.pc = IF last THEN "saveScore" ELSE "judge"]
          /\ results' = IF ok
                        THEN [results EXCEPT
                                ![evalCall.scanId][evalCall.todo[evalCall.idx]].metrics = m]
                        ELSE results
  /\ UNCHANGED <<queue, currentJob, isPaused, jobs, run, timers, scans, events, evalIn, evalOut>>

\* lines 75-80 of that call: db.updateScan(scanId, {overallScore}) returns or
\* throws, and evaluateScan returns or throws to its caller
EvaluateScanSaves(E) ==
  /\ evalCall.pc = "saveScore"
  /\ \E ok \in E.db :
       scans' = IF ok
                THEN [scans EXCEPT ![evalCall.scanId].overallScore =
                        overallScoreOf(evalCall.totalScore, evalCall.evaluatedCount)]
                ELSE scans
  /\ evalCall' = [evalCall EXCEPT !.pc = "done"]
  /\ UNCHANGED <<queue, currentJob, isPaused, jobs, run, timers, results, events, evalIn, evalOut>>

\* the run of RunSpec, and one more evaluateScan call on its Scan
NextAgain ==
  \/ NextIn(RunEnv)
  \/ \E s \in 1..Len(scans) : evaluateScan(s)
  \/ EvaluateScanLoads(RunEnv)
  \/ EvaluateScanJudges(RunEnv)
  \/ EvaluateScanSaves(RunEnv)

AgainSpec == Init /\ [][NextAgain]_vars

\* ---------------------------------------------------------------- claims
Running(j) == jobs[j].status = "running"
RunActive(j) == run[j].pc \notin {"idle", "done"}
InJobList(id) == \E i \in 1..Len(getAllJobs(queue, currentJob)) : getAllJobs(queue, currentJob)[i] = id

\* C1: at most one ScanJob has status running at any instant, whatever the
\* sequence of enqueue, pause, resume, cancel, completions and failures.
C1_AtMostOneRunning == Cardinality({j \in JobIds : Running(j)}) <= 1

\* C2: at most one Scan Engine run is in progress at any instant: no run is
\* started while an earlier run has not yet returned or thrown.
C2_AtMostOneRun == Cardinality({j \in JobIds : RunActive(j)}) <= 1

\* C3: every change of a job's status is one of queued->running,
\* running->completed, running->failed, running->paused, paused->running, or
\* queued/running/paused->cancelled.
AllowedTransitions ==
  { <<"queued", "running">>, <<"running", "completed">>, <<"running", "failed">>,
    <<"running", "paused">>, <<"paused", "running">>, <<"queued", "cancelled">>,
    <<"running", "cancelled">>, <<"paused", "cancelled">> }

C3_StatusTransitions ==
  [][\A j \in JobIds :
       jobs'[j].status # jobs[j].status
         => <<jobs[j].status, jobs'[j].status>> \in AllowedTransitions]_vars

\* C4 (scenario E): when a paused job whose run has not ended is cancelled,
\* then as cancel returns the job is cancelled, it is neither in the queue nor
\* in the job list getAllJobs returns, and the current-job slot is empty.
C4_PausedThenCancelled ==
  [][\A j \in JobIds :
       (jobs[j].status = "paused" /\ RunActive(j) /\ jobs'[j].status = "cancelled")
         => /\ ~InQueue(queue', j)
            /\ ~InJobList(j)'
            /\ currentJob' = 0]_vars

\* the run of job j begins a matrix cell, issues a provider call or begins
\* the evaluation in this step
StartsWork(j) ==
  /\ run'[j].pc # run[j].pc
  /\ run'[j].pc \in {"getKey", "providerCall", "evalLoad"}

\* j's is the only run started so far: its slot was then freed by cancelScan
OnlyRun(j) == \A k \in JobIds : k # j => run[k].pc = "idle"

\* C5: after cancelScan on a running job has returned, that job's run starts
\* no further matrix cell, issues no further provider call and does not start
\* the evaluation (stated for the job whose run is the only one started: it is
\* cancelled, its run has not ended and the slot no longer holds it).
C5_NoWorkAfterCancel ==
  [][\A j \in JobIds :
       (jobs[j].status = "cancelled" /\ currentJob # j /\ OnlyRun(j))
         => ~StartsWork(j)]_vars

\* C6: while a job has status paused its run starts no new matrix cell, issues
\* no provider call and does not begin the evaluation.
C6_NoWorkWhilePaused ==
  [][\A j \in JobIds : jobs[j].status = "paused" => ~StartsWork(j)]_vars

\* C7: every job has progress.completed <= progress.total, and a job with
\* status completed has progress.completed = progress.total.
C7_Progress ==
  \A j \in JobIds :
    /\ jobs[j].progress.completed <= jobs[j].progress.total
    /\ jobs[j].status = "completed"
         => jobs[j].progress.completed = jobs[j].progress.total

\* C8: in every persisted state a Scan's overallScore is non-null if and only
\* if its status is completed.
C8_ScoreIffCompleted ==
  \A s \in 1..Len(scans) :
    (scans[s].overallScore # Null) <=> (scans[s].status = "completed")

\* the error runScan throws in a step that ends job j's run with a throw: its
\* own error once the Scan row is marked failed, else the failed write's
ThrownBy(j) ==
  IF run[j].pc = "markFailed" /\ scans'[run[j].scanId].status = "failed"
  THEN run[j].err ELSE DbError

\* C10: when the run of a job returns scan id s the job becomes completed with
\* scanId = s and a completedAt; when it throws e the job becomes failed with
\* error = String(e) and a completedAt; either way the slot is cleared.
C10_RunSettled ==
  [][\A j \in JobIds :
       /\ (run[j].pc = "markCompleted" /\ run'[j].pc = "done")
            => /\ jobs'[j].status = "completed"
               /\ jobs'[j].scanId = run[j].scanId
               /\ jobs'[j].completedAt
               /\ currentJob' = 0
       /\ (run[j].pc \in {"createScan", "markFailed"} /\ run'[j].pc = "done")
            => /\ jobs'[j].status = "failed"
               /\ jobs'[j].error = String(ThrownBy(j))
               /\ jobs'[j].completedAt
               /\ currentJob' = 0]_vars

\* one job's run has returned and another's has thrown
C10_Witness ==
  \E j, k \in JobIds :
    /\ run[j].pc = "done" /\ jobs[j].status = "completed" /\ jobs[j].scanId # Null
    /\ run[k].pc = "done" /\ jobs[k].status = "failed" /\ jobs[k].error # ""
    /\ currentJob = 0

\* C9: provided every run eventually returns or throws (the fairness of
\* FairSpec) and every paused job is eventually resumed or cancelled, every
\* job that is enqueued and not cancelled reaches completed or failed.
PausedIsHandled ==
  \A j \in 1..MaxJobs :
    (j \in JobIds /\ jobs[j].status = "paused")
      ~> (j \in JobIds /\ jobs[j].status \in {"running", "cancelled"})

C9_EveryJobSettles ==
  PausedIsHandled =>
    \A j \in 1..MaxJobs :
      (j \in JobIds /\ jobs[j].status = "queued")
        ~> (j \in JobIds /\ jobs[j].status \in {"completed", "failed", "cancelled"})

\* ------------------------------------------------- claims C11 to C20
ConfigErrors == {NoActiveQueries, NoActiveProviders, NoJudgeCredential}

InLoop(j) == run[j].pc \in {"getKey", "providerCall", "saveResult"}

\* this step ends the current matrix cell of job j's run
CellEnds(j) ==
  /\ InLoop(j)
  /\ run'[j].cell # run[j].cell \/ run'[j].pc = "evalLoad"

Returned == evalOut.pc \in {"returned", "scored"}

\* the judge call failed, or its text holds no JSON object, or the object
\* found is malformed
JudgeFails ==
  \/ evalIn.reply.throws
  \/ jsonMatch(evalIn.reply.text) = NoMatch
  \/ JSONparse(jsonMatch(evalIn.reply.text), evalIn.reply.json) = SyntaxError

\* text u occurs in text t, letter case ignored
OccursIn(u, t) ==
  \E i \in 1..(Len(t) - Len(u) + 1) :
    \A k \in 1..Len(u) : lowerChar(t[i + k - 1]) = lowerChar(u[k])

BrandOccurs ==
  \E i \in 1..Len(evalIn.brandVariations) :
    OccursIn(evalIn.brandVariations[i], evalIn.aiResponse)

\* C13: when the judge call fails, or returns text without a JSON object, or
\* returns malformed JSON, evaluateResponse still returns, and the Metrics are
\* exactly: is_visible iff some brand variant occurs in the raw text ignoring
\* case, citation_found iff the domain does, sentiment_score 0,
\* ranking_position null, recommendation_strength 50 if visible else 0.
C13_JudgeFallback ==
  /\ evalOut.pc = "called" => ENABLED EvaluateResponseReturns
  /\ (Returned /\ JudgeFails)
       => evalOut.metrics =
            [is_visible |-> BrandOccurs,
             sentiment_score |-> 0,
             citation_found |-> OccursIn(evalIn.domain, evalIn.aiResponse),
             ranking_position |-> Null,
             recommendation_strength |-> IF BrandOccurs THEN 50 ELSE 0]

\* malformed JSON from the judge, and a brand found in a raw text that has an
\* upper-case letter
C13_Witness ==
  /\ Returned
  /\ evalIn.reply.text = <<"{", "x", "}">>
  /\ evalIn.aiResponse # toLowerCase(evalIn.aiResponse)
  /\ evalOut.metrics.is_visible
  /\ evalOut.metrics.recommendation_strength = 50

\* the object JSON.parse gave, when the judge's reply parsed
Parsed == JSONparse(jsonMatch(evalIn.reply.text), evalIn.reply.json)

Between(lo, x, hi) == IF x < lo THEN lo ELSE IF x > hi THEN hi ELSE x

\* C14: when the judge's reply parses, a numeric sentiment_score is stored
\* clamped to [-1,1] (tenths: [-10,10]), a numeric recommendation_strength
\* clamped to [0,100], and ranking_position exactly as the judge returned it.
C14_ClampOnParse ==
  (Returned /\ ~JudgeFails)
    => /\ Parsed.sentiment_score # Null
            => evalOut.metrics.sentiment_score = Between(-10, Parsed.sentiment_score, 10)
       /\ Parsed.recommendation_strength # Null
            => evalOut.metrics.recommendation_strength
                 = Between(0, Parsed.recommendation_strength, 100)
       /\ evalOut.metrics.ranking_position = Parsed.ranking_position

\* scenario D: the judge said 1.7 and 1.0 is stored; a recommendation above
\* 100 is stored as 100 and an out-of-range ranking is passed through
C14_Witness ==
  /\ Returned /\ ~JudgeFails
  /\ Parsed.sentiment_score = 17 /\ evalOut.metrics.sentiment_score = 10
  /\ Parsed.recommendation_strength = 150 /\ evalOut.metrics.recommendation_strength = 100
  /\ Parsed.ranking_position = 12 /\ evalOut.metrics.ranking_position = 12

\* C15: for every Metrics evaluateResponse can return, the score lies in
\* [0,100] (tenths: [0,1000]) and the ranking term is 0 when ranking_position
\* is absent, else max(0, 11 - ranking_position), and never more than 10.
C15_ScoreAndRankingTerm ==
  evalOut.pc = "scored"
    => /\ evalOut.score >= 0 /\ evalOut.score <= 1000
       /\ rankingPoints(evalOut.metrics)
            = IF evalOut.metrics.ranking_position = Null THEN 0
              ELSE 10 * Max(0, 11 - evalOut.metrics.ranking_position)
       /\ rankingPoints(evalOut.metrics) <= 100

\* the sum of the scores of the rows that carry Metrics, and their number
RECURSIVE SumScores(_, _)
SumScores(rows, i) ==
  IF i > Len(rows) THEN 0
  ELSE (IF rows[i].metrics = NoMetrics THEN 0 ELSE calculateScore(rows[i].metrics))
         + SumScores(rows, i + 1)

Scored(rows) == Cardinality({i \in 1..Len(rows) : rows[i].metrics # NoMetrics})

\* C16: when evaluateScan returns, the overallScore it stored is the rounded
\* mean of the scores of exactly the results whose Metrics were persisted, 0
\* when there are none; a result whose Metrics could not be persisted does not
\* contribute.
C16_MeanOfPersisted ==
  [][\A j \in JobIds :
       (run[j].pc = "saveScore" /\ run'[j].pc = "markCompleted")
         => scans'[run[j].scanId].overallScore
              = overallScoreOf(SumScores(results[run[j].scanId], 1),
                               Scored(results[run[j].scanId]))]_vars

\* C17: cancelScan on a queued or paused job removes it from the job list
\* getAllJobs returns as cancel returns, starts no run and changes no other
\* job's status.
C17_CancelQueuedOrPaused ==
  [][\A id \in JobIds :
       (jobs[id].status \in {"queued", "paused"} /\ jobs'[id].status = "cancelled")
         => /\ ~InJobList(id)'
            /\ \A k \in JobIds : k # id => jobs'[k].status = jobs[k].status
            /\ \A k \in JobIds : run'[k].pc = run[k].pc]_vars

\* C18: cancelScan with the id of a completed or failed job, or with an
\* unknown id, leaves every job, the queue and the slot as they were.
C18_CancelTerminal ==
  [][\A id \in 1..MaxJobs :
       ((id \notin JobIds \/ jobs[id].status \in {"completed", "failed"}) /\ cancelScan(id))
         => (jobs' = jobs /\ queue' = queue /\ currentJob' = currentJob)]_vars

Started(j) ==
  \/ jobs'[j].status = "running" /\ (j > Len(jobs) \/ jobs[j].status = "queued")
  \/ run'[j].pc = "createScan" /\ (j > Len(jobs) \/ run[j].pc = "idle")

\* C20: whichever of enqueue, resume, cancel or a timer triggered the
\* dispatch, a job is started only when the slot is empty and the pause flag
\* is clear as processNext reads it (set before the step only when the step
\* is the resume that clears it); the started job takes the slot.
C20_DispatchGuard ==
  [][\A j \in 1..Len(jobs') :
       Started(j)
         => /\ currentJob = 0
            /\ ~isPaused'
            /\ isPaused => \E k \in JobIds : jobs[k].status = "paused" /\ jobs'[k].status = "running"
            /\ currentJob' = j]_vars

\* a dispatch found the pause flag set: no timer is pending, the slot is
\* empty and a job is still queued
C20_Witness ==
  /\ isPaused /\ currentJob = 0 /\ timers = 0
  /\ \E j, k \in JobIds : jobs[j].status = "queued" /\ run[k].pc = "done"

\* ------------------------------------------------- claims C21 to C30
\* C21: a job's progress changes only in a step that finds its status
\* running; a step of its run that finds another status (paused, cancelled,
\* completed or failed) leaves the progress as it was and, unless it is the
\* step that ends the run, emits no job-list event.
C21_ProgressOnlyWhileRunning ==
  [][\A j \in JobIds :
       /\ jobs'[j].progress # jobs[j].progress => jobs[j].status = "running"
       /\ (RunActive(j) /\ run'[j] # run[j] /\ jobs[j].status # "running")
            => /\ jobs'[j].progress = jobs[j].progress
               /\ run'[j].pc # "done" => events' = events]_vars

\* a paused job whose run has emitted the progress of its first cell, which
\* was discarded
C21_Witness ==
  \E j \in JobIds :
    /\ jobs[j].status = "paused"
    /\ run[j].pc = "providerCall"
    /\ jobs[j].progress.total = 0

\* C22: a job that is started is the earliest-enqueued job whose status is
\* queued (job ids are in enqueue order); so of two jobs the later one has
\* been started only if the earlier one has been started or cancelled.
C22_StartedInEnqueueOrder ==
  [][/\ \A j \in 1..Len(jobs') :
          Started(j) => \A k \in JobIds : k < j => jobs[k].status # "queued"
     /\ \A j, k \in JobIds :
          (j < k /\ jobs[k].startedAt)
            => jobs[j].startedAt \/ jobs[j].status = "cancelled"]_vars

\* two jobs were queued when the slot became free, and the earlier one of
\* them was started
C22_Witness ==
  /\ Len(jobs) = 3
  /\ run[1].pc = "done"
  /\ jobs[2].status = "running" /\ currentJob = 2
  /\ jobs[3].status = "queued"

\* C23: after every operation the last job-list event carries the job list
\* getAllJobs returns then, with each job's status and progress: every
\* mutation of the queue, the slot, a status or a progress is followed by such
\* an event before another operation runs.
C23_EventAfterMutation == events = Snapshot(queue, currentJob, jobs)

\* C24: the pause flag is set if and only if some job has status paused.
C24_PauseFlagIffPaused ==
  isPaused <=> \E j \in JobIds : jobs[j].status = "paused"

\* C25: the slot is non-empty exactly when some job is running or paused; the
\* job it holds is running or paused, and no other job is.
C25_SlotIffRunningOrPaused ==
  /\ currentJob # 0 <=> \E j \in JobIds : jobs[j].status \in {"running", "paused"}
  /\ currentJob # 0 => jobs[currentJob].status \in {"running", "paused"}
  /\ \A j \in JobIds : jobs[j].status \in {"running", "paused"} => currentJob = j

\* C26: no job occurs twice in the list getAllJobs returns, nor in the
\* snapshot the last job-list event carried.
C26_NoDuplicates ==
  /\ \A a, b \in 1..Len(getAllJobs(queue, currentJob)) :
       a # b => getAllJobs(queue, currentJob)[a] # getAllJobs(queue, currentJob)[b]
  /\ \A a, b \in 1..Len(events) : a # b => events[a].id # events[b].id

\* C27: runScan is called at most once for a job: a run is started only for
\* a job that had none, and no job's status returns to queued, so neither
\* resume nor any other operation re-enters run for a job.
C27_RunStartedOnce ==
  [][\A j \in JobIds :
       /\ (run'[j].pc = "createScan" /\ run[j].pc # "createScan")
            => run[j].pc = "idle" /\ jobs[j].status = "queued"
       /\ run[j].pc # "idle" => run'[j].pc # "idle"
       /\ jobs'[j].status = "queued" => jobs[j].status = "queued"]_vars

\* a job that was paused while its run was reading the configuration and
\* then resumed: it is running again, in the same run, with the progress of
\* its first cell discarded
C27_Witness ==
  \E j \in JobIds :
    /\ jobs[j].status = "running" /\ currentJob = j
    /\ run[j].pc = "providerCall"
    /\ jobs[j].progress.total = 0

\* C28: a completed job has a scanId, and the Scan row it names is completed
\* with an overallScore from 0 to 100; a failed job has an error string.
C28_CompletedJobHasScan ==
  \A j \in JobIds :
    /\ jobs[j].status = "completed"
         => /\ jobs[j].scanId \in 1..Len(scans)
            /\ scans[jobs[j].scanId].status = "completed"
            /\ scans[jobs[j].scanId].overallScore \in 0..100
    /\ jobs[j].status = "failed" => jobs[j].error # ""

\* one job completed with a positive score and another failed
C28_Witness ==
  \E j, k \in JobIds :
    /\ jobs[j].status = "completed" /\ scans[jobs[j].scanId].overallScore > 0
    /\ jobs[k].status = "failed" /\ jobs[k].error = String(NoActiveQueries)

\* C29: an evaluateScan call made on a completed Scan all of whose results
\* carry Metrics (so the call finds nothing to evaluate) leaves every result's
\* Metrics and the Scan's overallScore as they were when it returns.
C29_EvaluateIdempotent ==
  [][(/\ evalCall.pc = "saveScore" /\ evalCall'.pc = "done"
      /\ scans[evalCall.scanId].status = "completed"
      /\ evalCall.todo = <<>>)
       => /\ results'[evalCall.scanId] = results[evalCall.scanId]
          /\ scans'[evalCall.scanId].overallScore
               = scans[evalCall.scanId].overallScore]_vars

\* C30 (the part that is not liveness): a provider call is issued only for
\* a cell numbered 1..|Q|x|P|, and the cell number then increases before the
\* next one; a judge call is made only for an entry of the list of unscored
\* results, each entry once; and when the run ends the Scan row it created is
\* completed or failed. Persistence calls may fail.
C30_BoundedCallsAndScanSettled ==
  [][\A j \in JobIds :
       /\ (run'[j].pc = "providerCall" /\ run[j].pc # "providerCall")
            => run[j].pc = "getKey" /\ run[j].cell \in 1..run[j].total
       /\ (run[j].pc = "providerCall" /\ run'[j] # run[j])
            => \/ run'[j].pc = "saveResult" /\ run'[j].cell = run[j].cell
               \/ run'[j].pc = "getKey" /\ run'[j].cell = run[j].cell + 1
               \/ run'[j].pc = "evalLoad" /\ run[j].cell = run[j].total
       /\ run[j].pc = "judge"
            => /\ run[j].idx \in 1..Len(run[j].todo)
               /\ Len(run[j].todo) <= Len(results[run[j].scanId])
               /\ run'[j] # run[j] => run'[j].idx = run[j].idx + 1
       /\ (run[j].scanId # Null /\ run'[j].pc = "done")
            => scans'[run[j].scanId].status \in {"completed", "failed"}]_vars

====
